---- MODULE Spec2Model ----
(***************************************************************************)
(* Model of clean_gherkin_text_simplified (src/gherkin-formatter.py).      *)
(*                                                                         *)
(* A Python str is a sequence of characters; a character is a one-letter   *)
(* TLA+ string (NBSP stands for the single character U+00A0).  The str     *)
(* methods and the regular expression the function uses are operators     *)
(* that compute what CPython computes.  The function's local variables are *)
(* the state; one action is the CRLF normalisation, one is an iteration of *)
(* the finditer loop (the whole loop body), one is the return.             *)
(***************************************************************************)
EXTENDS Naturals, Sequences, FiniteSets

VARIABLES
    arg,                                  \* the argument the current call was given
    call,                                 \* 1: f(x); 2: f applied to the first call's result
    input,                                \* x, the document handed to the first call
    pc,                                   \* "start" | "loop" | "done"
    raw_text,                             \* line 17
    pos,                                  \* where finditer resumes scanning (1-based)
    matches,                              \* the matches finditer has yielded: [start, end)
    block_text_stripped_outer,            \* line 28, last iteration
    cleaned_block_text,                   \* lines 30-38, last iteration
    lines_of_block,                       \* line 40, last iteration
    processed_line_contents,              \* line 48, one value per line of the block
    reformatted_lines_for_current_block,  \* lines 41-80, last iteration
    processed_feature_blocks,             \* line 24, 83
    result                                \* line 86

vars == <<arg, call, input, pc, raw_text, pos, matches, block_text_stripped_outer,
          cleaned_block_text, lines_of_block, processed_line_contents,
          reformatted_lines_for_current_block, processed_feature_blocks, result>>

----------------------------------------------------------------------------
(* Characters *)

Q    == "\""
NL   == "\n"
CR   == "\r"
SP   == " "
TAB  == "\t"
NBSP == "U+00A0"

\* str.isspace() is true of these (and of \v, \f, U+0085, U+2028, ... which
\* no input of the model contains); U+00A0 is of category Zs.
Whitespace == {SP, TAB, NL, CR, NBSP}

Feature    == <<"F", "e", "a", "t", "u", "r", "e", ":">>
QFeature   == <<Q>> \o Feature
At         == <<"@">>
Scenario   == <<"S", "c", "e", "n", "a", "r", "i", "o", ":">>
Rule       == <<"R", "u", "l", "e", ":">>
Example    == <<"E", "x", "a", "m", "p", "l", "e", ":">>
Background == <<"B", "a", "c", "k", "g", "r", "o", "u", "n", "d", ":">>
Examples   == <<"E", "x", "a", "m", "p", "l", "e", "s", ":">>
Pipe       == <<"|">>
Given      == <<"G", "i", "v", "e", "n">>
When       == <<"W", "h", "e", "n">>
Then       == <<"T", "h", "e", "n">>
And        == <<"A", "n", "d">>
But        == <<"B", "u", "t">>
Star       == <<"*">>

----------------------------------------------------------------------------
(* Python str methods *)

startswith(s, p) == Len(s) >= Len(p) /\ SubSeq(s, 1, Len(p)) = p

endswith(s, p) == Len(s) >= Len(p) /\ SubSeq(s, Len(s) - Len(p) + 1, Len(s)) = p

\* s[i:] starts with p (i is 1-based)
StartsAt(s, i, p) == i + Len(p) - 1 <= Len(s) /\ SubSeq(s, i, i + Len(p) - 1) = p

\* s.replace(old, new): non-overlapping occurrences, left to right, one pass
RECURSIVE replace(_, _, _)
replace(s, old, new) ==
    IF s = <<>> THEN <<>>
    ELSE IF startswith(s, old)
         THEN new \o replace(SubSeq(s, Len(old) + 1, Len(s)), old, new)
         ELSE <<Head(s)>> \o replace(Tail(s), old, new)

RECURSIVE lstrip(_, _)
lstrip(s, chars) ==
    IF s # <<>> /\ Head(s) \in chars THEN lstrip(Tail(s), chars) ELSE s

RECURSIVE rstrip(_, _)
rstrip(s, chars) ==
    IF s # <<>> /\ s[Len(s)] \in chars
    THEN rstrip(SubSeq(s, 1, Len(s) - 1), chars)
    ELSE s

\* s.strip(), s.rstrip() without argument strip whitespace
strip(s) == lstrip(rstrip(s, Whitespace), Whitespace)

\* s.split(c): always at least one element
RECURSIVE split(_, _)
split(s, c) ==
    IF \A i \in 1..Len(s) : s[i] # c THEN <<s>>
    ELSE LET i == CHOOSE k \in 1..Len(s) : s[k] = c /\ \A j \in 1..(k - 1) : s[j] # c
         IN  <<SubSeq(s, 1, i - 1)>> \o split(SubSeq(s, i + 1, Len(s)), c)

\* sep.join(parts)
RECURSIVE join(_, _)
join(sep, parts) ==
    IF parts = <<>> THEN <<>>
    ELSE IF Len(parts) = 1 THEN parts[1]
    ELSE parts[1] \o sep \o join(sep, Tail(parts))

----------------------------------------------------------------------------
(* feature_block_pattern:  (?P<block>"?Feature:.*?)(?=(?:"?Feature:|$))  with  *)
(* re.DOTALL, as finditer runs it                                            *)

\* "?Feature: matches at p.  The optional quote is greedy: it is taken when
\* it is there, and a quote that is not followed by Feature: starts no match.
marker_at(text, p) == StartsAt(text, p, QFeature) \/ StartsAt(text, p, Feature)

marker_len(text, p) ==
    IF StartsAt(text, p, QFeature) THEN Len(QFeature) ELSE Len(Feature)

\* (?=(?:"?Feature:|$)) holds at e.  Without re.MULTILINE, $ matches at the
\* end of the string and just before a newline that ends the string.
lookahead_at(text, e) ==
    \/ marker_at(text, e)
    \/ e = Len(text) + 1
    \/ (e = Len(text) /\ text[e] = NL)

\* finditer has another match at or after start
has_match(text, start) == \E p \in start..Len(text) : marker_at(text, p)

\* its start: the leftmost one
match_start(text, start) ==
    CHOOSE p \in start..Len(text) :
        marker_at(text, p) /\ \A q \in start..(p - 1) : ~marker_at(text, q)

\* the bug of a greedy .* : the match runs to the last place where the
\* lookahead holds, the end of the text
match_end_greedy(text, s) == Len(text) + 1

\* .*? is lazy and, under DOTALL, crosses newlines: the match ends at the
\* first position after the marker where the lookahead holds (exclusive end)
match_end(text, s) ==
    LET from == s + marker_len(text, s)
    IN  CHOOSE e \in from..(Len(text) + 1) :
            lookahead_at(text, e) /\ \A d \in from..(e - 1) : ~lookahead_at(text, d)

----------------------------------------------------------------------------
(* The loop body, lines 26-83 *)

\* the bug of stripping the quotes instead of testing for the pair: a
\* leading quote goes even when no quote ends the block
unwrap_each_end(t) ==
    LET body == IF startswith(t, QFeature) THEN Tail(t) ELSE t
    IN  IF endswith(body, <<Q>>) THEN SubSeq(body, 1, Len(body) - 1) ELSE body

\* lines 33-38: block-level quoting artifacts
unwrap(t) ==
    IF startswith(t, QFeature) /\ endswith(t, <<Q>>)
    THEN SubSeq(t, 2, Len(t) - 1)
    ELSE IF startswith(t, Feature) /\ endswith(t, <<Q>>)
         THEN SubSeq(t, 1, Len(t) - 1)
         ELSE t

\* the bug of replacing until no pair is left: every run becomes one quote
RECURSIVE replace_until_stable(_, _, _)
replace_until_stable(s, old, new) ==
    IF replace(s, old, new) = s THEN s
    ELSE replace_until_stable(replace(s, old, new), old, new)

process_line_until_stable(line_text) ==
    replace_until_stable(rstrip(line_text, Whitespace), <<Q, Q>>, <<Q>>)

\* lines 45-48: processed_line_content
process_line(line_text) == replace(rstrip(line_text, Whitespace), <<Q, Q>>, <<Q>>)

SectionTokens == {Scenario, Rule, Example, Background}
StepTokens    == {Given, When, Then, And, But, Star}

startswith_any(s, prefixes) == \E p \in prefixes : startswith(s, p)

Indent(n) == [i \in 1..n |-> SP]

\* the bug of testing the section keywords without their colon: Examples:
\* begins with Example and is indented as a section
reformat_line_section_prefix(processed_line_content) ==
    LET temp_stripped_for_keyword == lstrip(processed_line_content, {SP, TAB})
    IN  IF startswith(temp_stripped_for_keyword, Feature)
        THEN Indent(0) \o temp_stripped_for_keyword
        ELSE IF startswith(temp_stripped_for_keyword, At)
        THEN Indent(2) \o temp_stripped_for_keyword
        ELSE IF startswith_any(temp_stripped_for_keyword,
                            {SubSeq(k, 1, Len(k) - 1) : k \in SectionTokens})
        THEN Indent(2) \o temp_stripped_for_keyword
        ELSE IF startswith(temp_stripped_for_keyword, Examples)
        THEN Indent(4) \o temp_stripped_for_keyword
        ELSE IF startswith(temp_stripped_for_keyword, Pipe)
        THEN Indent(6) \o temp_stripped_for_keyword
        ELSE IF startswith_any(temp_stripped_for_keyword, StepTokens)
        THEN Indent(4) \o temp_stripped_for_keyword
        ELSE IF temp_stripped_for_keyword = <<>>
        THEN <<>>
        ELSE processed_line_content

\* the bug of emitting, in the fallback, the line without its leading blanks
reformat_line_fallback_stripped(processed_line_content) ==
    LET temp_stripped_for_keyword == lstrip(processed_line_content, {SP, TAB})
    IN  IF startswith(temp_stripped_for_keyword, Feature)
        THEN Indent(0) \o temp_stripped_for_keyword
        ELSE IF startswith(temp_stripped_for_keyword, At)
        THEN Indent(2) \o temp_stripped_for_keyword
        ELSE IF startswith_any(temp_stripped_for_keyword, SectionTokens)
        THEN Indent(2) \o temp_stripped_for_keyword
        ELSE IF startswith(temp_stripped_for_keyword, Examples)
        THEN Indent(4) \o temp_stripped_for_keyword
        ELSE IF startswith(temp_stripped_for_keyword, Pipe)
        THEN Indent(6) \o temp_stripped_for_keyword
        ELSE IF startswith_any(temp_stripped_for_keyword, StepTokens)
        THEN Indent(4) \o temp_stripped_for_keyword
        ELSE IF temp_stripped_for_keyword = <<>>
        THEN <<>>
        ELSE temp_stripped_for_keyword

\* the bug of putting the indent before the line as it was, leading blanks
\* included
reformat_line_indent_added(processed_line_content) ==
    LET temp_stripped_for_keyword == lstrip(processed_line_content, {SP, TAB})
    IN  IF startswith(temp_stripped_for_keyword, Feature)
        THEN Indent(0) \o processed_line_content
        ELSE IF startswith(temp_stripped_for_keyword, At)
        THEN Indent(2) \o processed_line_content
        ELSE IF startswith_any(temp_stripped_for_keyword, SectionTokens)
        THEN Indent(2) \o processed_line_content
        ELSE IF startswith(temp_stripped_for_keyword, Examples)
        THEN Indent(4) \o processed_line_content
        ELSE IF startswith(temp_stripped_for_keyword, Pipe)
        THEN Indent(6) \o processed_line_content
        ELSE IF startswith_any(temp_stripped_for_keyword, StepTokens)
        THEN Indent(4) \o processed_line_content
        ELSE IF temp_stripped_for_keyword = <<>>
        THEN <<>>
        ELSE processed_line_content

\* lines 51-80: what the line appends to reformatted_lines_for_current_block
reformat_line(processed_line_content) ==
    LET temp_stripped_for_keyword == lstrip(processed_line_content, {SP, TAB})
    IN  IF startswith(temp_stripped_for_keyword, Feature)
        THEN Indent(0) \o temp_stripped_for_keyword
        ELSE IF startswith(temp_stripped_for_keyword, At)
        THEN Indent(2) \o temp_stripped_for_keyword
        ELSE IF startswith_any(temp_stripped_for_keyword, SectionTokens)
        THEN Indent(2) \o temp_stripped_for_keyword
        ELSE IF startswith(temp_stripped_for_keyword, Examples)
        THEN Indent(4) \o temp_stripped_for_keyword
        ELSE IF startswith(temp_stripped_for_keyword, Pipe)
        THEN Indent(6) \o temp_stripped_for_keyword
        ELSE IF startswith_any(temp_stripped_for_keyword, StepTokens)
        THEN Indent(4) \o temp_stripped_for_keyword
        ELSE IF temp_stripped_for_keyword = <<>>
        THEN <<>>
        ELSE processed_line_content

\* the bug of taking "content" to be what follows the Feature: line
block_had_content_after_header(reformatted, cleaned) ==
    Len(reformatted) > 1 /\ cleaned # <<>>

\* line 82: the guard of the append
block_had_content(reformatted, cleaned) == reformatted # <<>> \/ cleaned # <<>>

\* the bug of ending the returned text with a newline
join_blocks_newline_ended(blocks) == join(<<NL, NL>>, blocks) \o <<NL>>

\* line 86: the returned text
join_blocks(blocks) == join(<<NL, NL>>, blocks)

----------------------------------------------------------------------------
(* Inputs *)

MaxPieces == 4
MaxIndent == 3

RECURSIVE Texts(_, _)
Texts(P, n) ==
    IF n = 0 THEN {<<>>}
    ELSE LET T == Texts(P, n - 1) IN T \cup {t \o p : t \in T, p \in P}

\* documents put together from markers, quotes, line ends, blanks and text
CorePieces == {Feature, <<Q>>, <<NL>>, <<SP>>, <<"x">>}

\* a feature line, a line end, and one line: indentation, a leading token, a tail
Headers   == {Feature \o <<SP, "F">>, QFeature}
LineEnds  == {<<NL>>, <<CR, NL>>, <<CR>>}
Leads     == {Indent(n) : n \in 0..MaxIndent} \cup {<<TAB>>, <<NBSP>>, <<TAB, SP>>}
LineHeads == {Feature, At} \cup SectionTokens \cup {Examples, Pipe} \cup StepTokens
                 \cup {<<"#">>, <<Q>>, <<>>}
LineTails == {<<>>, <<SP, "s">>, <<Q, Q, Q, "s">>, <<SP, Q>>, <<"s", NBSP>>, QFeature}

Inputs ==
    Texts(CorePieces, MaxPieces)
        \cup {h \o e \o l \o k \o t :
                h \in Headers, e \in LineEnds, l \in Leads, k \in LineHeads, t \in LineTails}

----------------------------------------------------------------------------
(* The calls *)

Init ==
    /\ input \in Inputs
    /\ arg = input
    /\ call = 1
    /\ pc = "start"
    /\ raw_text = <<>>
    /\ pos = 1
    /\ matches = <<>>
    /\ block_text_stripped_outer = <<>>
    /\ cleaned_block_text = <<>>
    /\ lines_of_block = <<>>
    /\ processed_line_contents = <<>>
    /\ reformatted_lines_for_current_block = <<>>
    /\ processed_feature_blocks = <<>>
    /\ result = <<>>

\* lines 17-24
Normalize ==
    /\ pc = "start"
    /\ raw_text' = replace(arg, <<CR, NL>>, <<NL>>)
    /\ processed_feature_blocks' = <<>>
    /\ pos' = 1
    /\ pc' = "loop"
    /\ UNCHANGED <<arg, call, input, matches, block_text_stripped_outer,
                   cleaned_block_text, lines_of_block, processed_line_contents,
                   reformatted_lines_for_current_block, result>>

\* lines 26-83: one iteration of the finditer loop
MatchBlock ==
    /\ pc = "loop"
    /\ has_match(raw_text, pos)
    /\ LET s       == match_start(raw_text, pos)
           e       == match_end(raw_text, s)
           outer   == strip(SubSeq(raw_text, s, e - 1))
           cleaned == unwrap(outer)
           lines   == split(cleaned, NL)
           procs   == [i \in 1..Len(lines) |-> process_line(lines[i])]
           refs    == [i \in 1..Len(lines) |-> reformat_line(procs[i])]
       IN  /\ matches' = Append(matches, [start |-> s, end |-> e])
           /\ pos' = e
           /\ block_text_stripped_outer' = outer
           /\ cleaned_block_text' = cleaned
           /\ lines_of_block' = lines
           /\ processed_line_contents' = procs
           /\ reformatted_lines_for_current_block' = refs
           /\ processed_feature_blocks' =
                 IF block_had_content(refs, cleaned)
                 THEN Append(processed_feature_blocks, join(<<NL>>, refs))
                 ELSE processed_feature_blocks
    /\ UNCHANGED <<arg, call, input, pc, raw_text, result>>

\* line 86
Return ==
    /\ pc = "loop"
    /\ ~has_match(raw_text, pos)
    /\ result' = join_blocks(processed_feature_blocks)
    /\ pc' = "done"
    /\ UNCHANGED <<arg, call, input, raw_text, pos, matches, block_text_stripped_outer,
                   cleaned_block_text, lines_of_block, processed_line_contents,
                   reformatted_lines_for_current_block, processed_feature_blocks>>

\* the cleaned text is cleaned again: a fresh call whose argument is the
\* first call's result
Reapply ==
    /\ pc = "done"
    /\ call = 1
    /\ arg' = result
    /\ call' = 2
    /\ pc' = "start"
    /\ raw_text' = <<>>
    /\ pos' = 1
    /\ matches' = <<>>
    /\ block_text_stripped_outer' = <<>>
    /\ cleaned_block_text' = <<>>
    /\ lines_of_block' = <<>>
    /\ processed_line_contents' = <<>>
    /\ reformatted_lines_for_current_block' = <<>>
    /\ processed_feature_blocks' = <<>>
    /\ result' = <<>>
    /\ UNCHANGED input

Next == Normalize \/ MatchBlock \/ Return \/ Reapply

Spec == Init /\ [][Next]_vars

----------------------------------------------------------------------------
(* What the properties speak of *)

\* the text the i-th match spans, match.group('block')
BlockOf(i) == SubSeq(raw_text, matches[i].start, matches[i].end - 1)

\* a marker start, read off the text: a quote immediately followed by
\* Feature:, or Feature: with no quote immediately before it
IsMarkerStart(text, p) ==
    \/ StartsAt(text, p, QFeature)
    \/ (StartsAt(text, p, Feature) /\ ~(p > 1 /\ text[p - 1] = Q))

MarkerStarts(text) == {p \in 1..Len(text) : IsMarkerStart(text, p)}

\* the i-th marker start in document order; past the last one, the end
NthStart(text, i) ==
    IF i > Cardinality(MarkerStarts(text)) THEN Len(text) + 1
    ELSE CHOOSE p \in MarkerStarts(text) :
            Cardinality({q \in MarkerStarts(text) : q < p}) = i - 1

NoMarker(text) == \A p \in 1..Len(text) : ~StartsAt(text, p, Feature)

RECURSIVE Count(_, _)
Count(c, s) ==
    IF s = <<>> THEN 0 ELSE (IF Head(s) = c THEN 1 ELSE 0) + Count(c, Tail(s))

\* C8: the blocks are the spans between consecutive marker starts, in
\* document order: the i-th match starts at the i-th marker start and ends
\* no later than the next one, its trimmed text is the trimmed text from
\* the i-th marker start up to the next (or to the end of the document),
\* and when the scan is over there is one match per marker start.
C8_BlockSegmentation ==
    pc \in {"loop", "done"} =>
        /\ Len(matches) <= Cardinality(MarkerStarts(raw_text))
        /\ (pc = "done" => Len(matches) = Cardinality(MarkerStarts(raw_text)))
        /\ \A i \in 1..Len(matches) :
              /\ matches[i].start = NthStart(raw_text, i)
              /\ matches[i].end <= NthStart(raw_text, i + 1)
              /\ strip(BlockOf(i)) =
                    strip(SubSeq(raw_text, NthStart(raw_text, i),
                                 NthStart(raw_text, i + 1) - 1))
        /\ (matches # <<>> =>
              block_text_stripped_outer = strip(BlockOf(Len(matches))))

\* two blocks, text before the first marker, the second marker led by a quote
C8_Witness ==
    /\ pc = "done"
    /\ Len(matches) >= 2
    /\ matches[1].start > 1
    /\ raw_text[matches[2].start] = Q
    /\ matches[1].end = matches[2].start

\* C5: the transformation is total (the scan position stays within the
\* text and every match moves it forward, so the loop ends and the call
\* returns), and a document with no Feature: anywhere yields no match, no
\* block and the empty string.
C5_NoMarkerGivesEmpty ==
    /\ pc \in {"start", "loop", "done"}
    /\ pos \in 1..(Len(raw_text) + 1)
    /\ (pc = "loop" /\ has_match(raw_text, pos) =>
          match_end(raw_text, match_start(raw_text, pos)) \in (pos + 1)..(Len(raw_text) + 1))
    /\ (NoMarker(arg) =>
          /\ matches = <<>>
          /\ processed_feature_blocks = <<>>
          /\ (pc = "done" => result = <<>>))

\* a non-empty document without a marker has been cleaned
C5_Witness ==
    /\ pc = "done"
    /\ call = 1
    /\ Len(arg) > 1
    /\ NoMarker(arg)
    /\ result = <<>>

\* C10: the guard of the append drops no block: the trimmed text of every
\* match is non-empty, the block has at least one reindented line, there
\* are as many assembled blocks as matches, and each assembled block begins
\* with Feature: or with a quote immediately followed by Feature:.
C10_GuardNeverDrops ==
    /\ Len(processed_feature_blocks) = Len(matches)
    /\ (matches # <<>> =>
          /\ block_text_stripped_outer # <<>>
          /\ Len(reformatted_lines_for_current_block) >= 1)
    /\ \A i \in 1..Len(processed_feature_blocks) :
          \/ startswith(processed_feature_blocks[i], Feature)
          \/ startswith(processed_feature_blocks[i], QFeature)

\* three blocks, the shortest possible one (a bare marker) among them, and
\* one that keeps its leading quote
C10_Witness ==
    /\ pc = "done"
    /\ Len(matches) = 3
    /\ Len(processed_feature_blocks) = 3
    /\ \E i \in 1..3 : processed_feature_blocks[i] = Feature
    /\ \E i \in 1..3 : startswith(processed_feature_blocks[i], QFeature)

\* C6: the unwrap removes at most one character from each end of the
\* trimmed block: the first and the last when it starts with a quote
\* immediately followed by Feature: and ends with a quote; the last only
\* when it starts with Feature: and ends with a quote; nothing otherwise.
C6_BlockUnwrap ==
    matches # <<>> =>
        LET t     == block_text_stripped_outer
            c     == cleaned_block_text
            n     == Len(t)
            lead  == n >= 9 /\ t[1] = Q /\ \A i \in 1..8 : t[i + 1] = Feature[i]
            plain == n >= 8 /\ \A i \in 1..8 : t[i] = Feature[i]
            trail == n >= 1 /\ t[n] = Q
        IN  /\ t = strip(BlockOf(Len(matches)))
            /\ (lead /\ trail) =>
                  (Len(c) = n - 2 /\ \A i \in 1..(n - 2) : c[i] = t[i + 1])
            /\ (~lead /\ plain /\ trail) =>
                  (Len(c) = n - 1 /\ \A i \in 1..(n - 1) : c[i] = t[i])
            /\ ~((lead \/ plain) /\ trail) => c = t

\* a block wrapped in quotes that ends with two of them: both ends lose one
\* character and a quote still ends the text
C6_WitnessBoth ==
    /\ matches # <<>>
    /\ startswith(block_text_stripped_outer, QFeature)
    /\ endswith(block_text_stripped_outer, <<Q, Q>>)
    /\ Len(cleaned_block_text) = Len(block_text_stripped_outer) - 2
    /\ endswith(cleaned_block_text, <<Q>>)

\* a line as its runs: a non-quote character is [quotes |-> 0, ch |-> c],
\* a maximal run of n quotes is [quotes |-> n, ch |-> Q]
RECURSIVE LeadingQuotes(_)
LeadingQuotes(s) ==
    IF s # <<>> /\ Head(s) = Q THEN 1 + LeadingQuotes(Tail(s)) ELSE 0

RECURSIVE RunsOf(_)
RunsOf(s) ==
    IF s = <<>> THEN <<>>
    ELSE IF Head(s) = Q
         THEN LET n == LeadingQuotes(s)
              IN  <<[quotes |-> n, ch |-> Q]>> \o RunsOf(SubSeq(s, n + 1, Len(s)))
         ELSE <<[quotes |-> 0, ch |-> Head(s)]>> \o RunsOf(Tail(s))

HalvedRuns(r) ==
    [k \in 1..Len(r) |-> [quotes |-> (r[k].quotes + 1) \div 2, ch |-> r[k].ch]]

\* C7: on every line of the unwrapped block, after the trailing whitespace
\* is removed, each maximal run of n quotes becomes a run of ceil(n/2)
\* quotes and every other character stays as it is and where it is.
C7_QuoteCollapsing ==
    /\ Len(processed_line_contents) = Len(lines_of_block)
    /\ \A i \in 1..Len(lines_of_block) :
          RunsOf(processed_line_contents[i]) =
              HalvedRuns(RunsOf(rstrip(lines_of_block[i], Whitespace)))

\* a line with a run of four quotes, now of two, and the text after it
C7_Witness ==
    \E i \in 1..Len(lines_of_block) :
        /\ RunsOf(lines_of_block[i]) =
              <<[quotes |-> 4, ch |-> Q], [quotes |-> 0, ch |-> "s"]>>
        /\ processed_line_contents[i] = <<Q, Q, "s">>

\* a line with a run of three quotes, now of two
C7_WitnessOdd ==
    \E i \in 1..Len(lines_of_block) :
        \E k \in 1..Len(RunsOf(lines_of_block[i])) :
            /\ RunsOf(lines_of_block[i])[k].quotes = 3
            /\ RunsOf(processed_line_contents[i])[k].quotes = 2

\* the table of section 3: the leading tokens in their priority order, each
\* with its indent
TokenTable ==
    << [tok |-> Feature,    ind |-> 0],
       [tok |-> At,         ind |-> 2],
       [tok |-> Scenario,   ind |-> 2],
       [tok |-> Rule,       ind |-> 2],
       [tok |-> Example,    ind |-> 2],
       [tok |-> Background, ind |-> 2],
       [tok |-> Examples,   ind |-> 4],
       [tok |-> Pipe,       ind |-> 6],
       [tok |-> Given,      ind |-> 4],
       [tok |-> When,       ind |-> 4],
       [tok |-> Then,       ind |-> 4],
       [tok |-> And,        ind |-> 4],
       [tok |-> But,        ind |-> 4],
       [tok |-> Star,       ind |-> 4] >>

HasToken(t) == \E k \in 1..Len(TokenTable) : startswith(t, TokenTable[k].tok)

\* the indent of the first table entry whose token t begins with
TableIndent(t) ==
    LET k == CHOOSE j \in 1..Len(TokenTable) :
                /\ startswith(t, TokenTable[j].tok)
                /\ \A h \in 1..(j - 1) : ~startswith(t, TokenTable[h].tok)
    IN  TokenTable[k].ind

\* the line has exactly the table's indent before its token
Canonical(line) ==
    LET t == lstrip(line, {SP, TAB})
    IN  HasToken(t) =>
           /\ Len(line) = TableIndent(t) + Len(t)
           /\ \A i \in 1..TableIndent(t) : line[i] = SP
           /\ \A i \in 1..Len(t) : line[TableIndent(t) + i] = t[i]

\* C3: every line of the output that begins, after its leading blanks and
\* tabs, with a token of the table has exactly the table's indent as its
\* leading whitespace; and a line of a block that begins with a token is
\* emitted as that indent followed by the line after trailing-whitespace
\* strip, quote collapsing and removal of the leading blanks and tabs.
C3_CanonicalIndentation ==
    /\ (pc = "done" =>
          \A i \in 1..Len(split(result, NL)) : Canonical(split(result, NL)[i]))
    /\ \A i \in 1..Len(lines_of_block) :
          LET t == lstrip(replace(rstrip(lines_of_block[i], Whitespace), <<Q, Q>>, <<Q>>),
                          {SP, TAB})
              r == reformatted_lines_for_current_block[i]
          IN  HasToken(t) => (Canonical(r) /\ lstrip(r, {SP, TAB}) = t)

\* a table row and an Examples: line whose indentation was changed
C3_Witness ==
    /\ pc = "done"
    /\ call = 1
    /\ \E i \in 1..Len(lines_of_block) :
          LET t == lstrip(processed_line_contents[i], {SP, TAB})
          IN  /\ startswith(t, Examples)
              /\ Len(processed_line_contents[i]) - Len(t) = 3
              /\ reformatted_lines_for_current_block[i] = Indent(4) \o t
              /\ Len(result) > Len(reformatted_lines_for_current_block[i])

\* C9: a line of the unwrapped block that is not blank and begins, after its
\* leading blanks and tabs, with none of the tokens is emitted as the line
\* after trailing-whitespace strip and quote collapsing, its leading
\* whitespace kept.
C9_FallbackPreservation ==
    /\ Len(reformatted_lines_for_current_block) = Len(lines_of_block)
    /\ \A i \in 1..Len(lines_of_block) :
          LET p == replace(rstrip(lines_of_block[i], Whitespace), <<Q, Q>>, <<Q>>)
              t == lstrip(p, {SP, TAB})
          IN  (t # <<>> /\ ~HasToken(t)) =>
                 reformatted_lines_for_current_block[i] = p

\* a comment line indented by blanks, kept with its indentation
C9_Witness ==
    \E i \in 1..Len(lines_of_block) :
        /\ startswith(lines_of_block[i], <<SP, SP, "#">>)
        /\ reformatted_lines_for_current_block[i] = rstrip(lines_of_block[i], Whitespace)

HasAdjacentQuotes(text) == \E p \in 1..Len(text) : StartsAt(text, p, <<Q, Q>>)

\* the trimmed text of the block that begins at the i-th marker start
TrimmedBlock(text, i) ==
    strip(SubSeq(text, NthStart(text, i), NthStart(text, i + 1) - 1))

\* no two quotes are adjacent and no block's trimmed text ends with a quote
QuoteStable(x) ==
    LET text == replace(x, <<CR, NL>>, <<NL>>)
    IN  /\ ~HasAdjacentQuotes(text)
        /\ \A i \in 1..Cardinality(MarkerStarts(text)) :
              ~endswith(TrimmedBlock(text, i), <<Q>>)

C2_OneBlankLineBetweenBlocks ==
    pc = "done" =>
        /\ result = join(<<NL, NL>>, processed_feature_blocks)
        /\ \A i \in 1..(Len(processed_feature_blocks) - 1) :
              /\ ~endswith(processed_feature_blocks[i], <<NL>>)
              /\ ~startswith(processed_feature_blocks[i + 1], <<NL>>)

\* C4 as stated, for the text of a block: every non-breaking space of the
\* text a match spans is in the block's assembled text.
C4_NonBreakingSpacePreserved ==
    matches # <<>> =>
        Count(NBSP, join(<<NL>>, reformatted_lines_for_current_block))
            = Count(NBSP, BlockOf(Len(matches)))

====
